---- MODULE Spec2Model ----
(***************************************************************************)
(* Model of src/d_ary_heap.py: class DAryHeap, a d-ary max-heap kept in a  *)
(* Python list (_heap), a separately tracked logical size (_heap_size) and *)
(* a branching factor (_children).                                         *)
(*                                                                         *)
(* A Python list is a TLA+ sequence; the 0-based Python index i is the     *)
(* position i + 1.  Python accepts the negative indices -len .. -1 and     *)
(* raises IndexError for every index outside -len .. len-1; subscripting   *)
(* is modelled that way, not as plain 0-based indexing.                    *)
(***************************************************************************)
EXTENDS Integers, Sequences, FiniteSets, TLC

\* ---- bounds of the model ------------------------------------------------
\* keys are 1 .. MaxKey
MaxKey == 3

\* branching factors up to MaxChildren are tried
MaxChildren == 3

\* longest heap in the specification of valid calls
MaxHeapLen == 6

\* longest list in the specification of every call
MaxLen == 3

\* keys in the specification of every call are 1 .. MaxArgKey
MaxArgKey == 2

\* longest input of build_max_heap and heap_sort on their own
MaxDataLen == 4

\* most keys in the insert/extract/build/extract script
MaxRound == 3

\* largest parent index passed to k_child on its own
MaxIndex == 20

Keys == 1 .. MaxKey

ArgKeys == 1 .. MaxArgKey

\* the value of a call that returns nothing (Python's None)
None == 0

\* the lists of exactly n, and of at most n, elements of K
RECURSIVE SeqsOfLen(_, _)
SeqsOfLen(K, n) ==
    IF n = 0 THEN {<<>>}
    ELSE {Append(s, x) : s \in SeqsOfLen(K, n - 1), x \in K}

Lists(K, n) == UNION {SeqsOfLen(K, m) : m \in 0 .. n}

\* how often x occurs in the list s, and whether two lists hold the same keys
Count(s, x) == Cardinality({i \in 1 .. Len(s) : s[i] = x})

Elems(s) == {s[i] : i \in 1 .. Len(s)}

SameBag(s, t) ==
    /\ Len(s) = Len(t)
    /\ \A x \in Elems(s) \cup Elems(t) : Count(s, x) = Count(t, x)

\* ---- Python list subscripting --------------------------------------------
InRange(list, i) == -Len(list) <= i /\ i < Len(list)

Pos(list, i) == IF i >= 0 THEN i + 1 ELSE Len(list) + i + 1

Get(list, i) == list[Pos(list, i)]

Put(list, i, v) == [list EXCEPT ![Pos(list, i)] = v]

Pop(list) == SubSeq(list, 1, Len(list) - 1)

\* ---- results of a call ---------------------------------------------------
\* what a call leaves behind: the list, the logical size, the exception it
\* raised ("none" when it returned) and its return value
Outcome(h, s, e, r) == [heap |-> h, size |-> s, err |-> e, ret |-> r]

\* ---- DAryHeap._swap ---------------------------------------------------------
\* temp = array[a]; array[a] = array[b]; array[b] = temp.  Both reads come
\* before the first write, so an IndexError leaves the list untouched.
_swap(array, index_a, index_b) ==
    IF ~InRange(array, index_a) \/ ~InRange(array, index_b)
    THEN [err |-> TRUE, heap |-> array]
    ELSE LET temp == Get(array, index_a)
             a1 == Put(array, index_a, Get(array, index_b))
         IN  [err |-> FALSE, heap |-> Put(a1, index_b, temp)]

\* ---- DAryHeap.k_child / DAryHeap.parent -------------------------------------
\* k_child numbering the children from 0
k_child_from_zero(d, k, parent_index) == d * parent_index + k - 1

k_child(d, k, parent_index) == d * parent_index + k

\* parent without the - 1
parent_no_minus_one(d, child_index) == child_index \div d

\* Python's // floors, as \div does for a positive divisor: parent(0) = -1
parent(d, child_index) == (child_index - 1) \div d

\* ---- DAryHeap._find_max -----------------------------------------------------
\* the loop of _find_max taking a child whose key is >= the largest so far
RECURSIVE find_max_loop_or_equal(_, _, _, _, _, _)
find_max_loop_or_equal(heap, size, d, parent_index, k, max_value) ==
    IF k > d THEN [err |-> FALSE, val |-> max_value]
    ELSE LET child == k_child(d, k, parent_index) IN
         IF child < size
         THEN IF ~InRange(heap, child) \/ ~InRange(heap, max_value)
              THEN [err |-> TRUE, val |-> max_value]
              ELSE IF Get(heap, child) >= Get(heap, max_value)
                   THEN find_max_loop_or_equal(heap, size, d, parent_index, k + 1, child)
                   ELSE find_max_loop_or_equal(heap, size, d, parent_index, k + 1, max_value)
         ELSE find_max_loop_or_equal(heap, size, d, parent_index, k + 1, max_value)

\* the loop "for k in range(1, children + 1)" from k on, max_value so far
RECURSIVE find_max_loop(_, _, _, _, _, _)
find_max_loop(heap, size, d, parent_index, k, max_value) ==
    IF k > d THEN [err |-> FALSE, val |-> max_value]
    ELSE LET child == k_child(d, k, parent_index) IN
         IF child < size
         THEN IF ~InRange(heap, child) \/ ~InRange(heap, max_value)
              THEN [err |-> TRUE, val |-> max_value]
              ELSE IF Get(heap, child) > Get(heap, max_value)
                   THEN find_max_loop(heap, size, d, parent_index, k + 1, child)
                   ELSE find_max_loop(heap, size, d, parent_index, k + 1, max_value)
         ELSE find_max_loop(heap, size, d, parent_index, k + 1, max_value)

\* _find_max looking at every child the list holds, whatever the logical size
_find_max_whole_list(heap, size, d, parent_index) ==
    find_max_loop(heap, Len(heap), d, parent_index, 1, parent_index)

_find_max(heap, size, d, parent_index) ==
    find_max_loop(heap, size, d, parent_index, 1, parent_index)

\* max_heapify that swaps once and does not descend
max_heapify_one_level(heap, size, d, node) ==
    LET largest == _find_max(heap, size, d, node) IN
    IF largest.err THEN [err |-> TRUE, heap |-> heap]
    ELSE IF largest.val # node THEN _swap(heap, node, largest.val)
    ELSE [err |-> FALSE, heap |-> heap]

\* ---- DAryHeap.max_heapify ---------------------------------------------------
RECURSIVE max_heapify(_, _, _, _)
max_heapify(heap, size, d, node) ==
    LET largest == _find_max(heap, size, d, node) IN
    IF largest.err THEN [err |-> TRUE, heap |-> heap]
    ELSE IF largest.val # node
         THEN LET sw == _swap(heap, node, largest.val) IN
              IF sw.err THEN sw
              ELSE max_heapify(sw.heap, size, d, largest.val)
         ELSE [err |-> FALSE, heap |-> heap]

\* one activation of max_heapify, up to its inner call: node is the argument
\* of the inner call when there is one (more)
max_heapify_step(heap, size, d, node) ==
    LET largest == _find_max(heap, size, d, node) IN
    IF largest.err
    THEN [err |-> TRUE, heap |-> heap, node |-> node, more |-> FALSE]
    ELSE IF largest.val # node
         THEN LET sw == _swap(heap, node, largest.val) IN
              IF sw.err
              THEN [err |-> TRUE, heap |-> heap, node |-> node, more |-> FALSE]
              ELSE [err |-> FALSE, heap |-> sw.heap, node |-> largest.val,
                    more |-> TRUE]
         ELSE [err |-> FALSE, heap |-> heap, node |-> node, more |-> FALSE]

\* ---- DAryHeap.build_max_heap ------------------------------------------------
\* "for i in range(heap_size // 2 - 1, -1, -1): max_heapify(heap, i)" from i on
\* visited lists the values of i max_heapify was called with, in call order
RECURSIVE build_loop(_, _, _, _)
build_loop(heap, size, d, i) ==
    IF i < 0 THEN [err |-> FALSE, heap |-> heap, visited |-> <<>>]
    ELSE LET r == max_heapify(heap, size, d, i) IN
         IF r.err THEN [err |-> TRUE, heap |-> r.heap, visited |-> <<i>>]
         ELSE LET rest == build_loop(r.heap, size, d, i - 1) IN
              [err |-> rest.err, heap |-> rest.heap,
               visited |-> <<i>> \o rest.visited]

\* the loop of build_max_heap starting at heap_size // children - 1
build_max_heap_run_from_children(heap, size, d, data) ==
    build_loop(data, size, d, size \div d - 1)

\* self._heap = data comes first and _heap_size is not assigned: the list
\* the instance held before is dropped, the logical size is kept, and the
\* loop starts at heap_size // 2 - 1 whatever the branching factor
build_max_heap_run(heap, size, d, data) ==
    build_loop(data, size, d, size \div 2 - 1)

build_max_heap(heap, size, d, data) ==
    LET r == build_max_heap_run(heap, size, d, data) IN
    Outcome(r.heap, size, IF r.err THEN "IndexError" ELSE "none", None)

\* ---- DAryHeap.increase_key --------------------------------------------------
\* the loop of increase_key leaving after its first swap
increase_key_loop_once(heap, d, index, key) ==
    IF ~(index > 0) THEN [err |-> FALSE, heap |-> heap]
    ELSE IF ~InRange(heap, parent(d, index)) THEN [err |-> TRUE, heap |-> heap]
    ELSE IF ~(key > Get(heap, parent(d, index))) THEN [err |-> FALSE, heap |-> heap]
    ELSE _swap(heap, index, parent(d, index))

\* "while index > 0 and key > heap[parent(index)]: swap; index = parent(index)"
RECURSIVE increase_key_loop(_, _, _, _)
increase_key_loop(heap, d, index, key) ==
    IF ~(index > 0) THEN [err |-> FALSE, heap |-> heap]
    ELSE IF ~InRange(heap, parent(d, index)) THEN [err |-> TRUE, heap |-> heap]
    ELSE IF ~(key > Get(heap, parent(d, index))) THEN [err |-> FALSE, heap |-> heap]
    ELSE LET sw == _swap(heap, index, parent(d, index)) IN
         IF sw.err THEN sw
         ELSE increase_key_loop(sw.heap, d, parent(d, index), key)

\* a loop that tests its condition and has no body
increase_key_step_no_body(heap, d, index, key) ==
    IF ~(index > 0) THEN [err |-> FALSE, heap |-> heap, index |-> index, more |-> FALSE]
    ELSE IF ~InRange(heap, parent(d, index))
         THEN [err |-> TRUE, heap |-> heap, index |-> index, more |-> FALSE]
    ELSE [err |-> FALSE, heap |-> heap, index |-> index,
          more |-> key > Get(heap, parent(d, index))]

\* one test of the loop condition of increase_key and, when it holds (more),
\* one run of the loop body
increase_key_step(heap, d, index, key) ==
    IF ~(index > 0) THEN [err |-> FALSE, heap |-> heap, index |-> index, more |-> FALSE]
    ELSE IF ~InRange(heap, parent(d, index))
         THEN [err |-> TRUE, heap |-> heap, index |-> index, more |-> FALSE]
    ELSE IF ~(key > Get(heap, parent(d, index)))
         THEN [err |-> FALSE, heap |-> heap, index |-> index, more |-> FALSE]
    ELSE LET sw == _swap(heap, index, parent(d, index)) IN
         IF sw.err
         THEN [err |-> TRUE, heap |-> heap, index |-> index, more |-> FALSE]
         ELSE [err |-> FALSE, heap |-> sw.heap, index |-> parent(d, index),
               more |-> TRUE]

\* increase_key that stores the key before it compares it
increase_key_write_first(heap, size, d, index, key) ==
    IF ~InRange(heap, index) THEN Outcome(heap, size, "IndexError", None)
    ELSE IF key <= Get(heap, index)
         THEN Outcome(Put(heap, index, key), size, "IllegalKeyError", None)
    ELSE LET r == increase_key_loop(Put(heap, index, key), d, index, key) IN
         Outcome(r.heap, size, IF r.err THEN "IndexError" ELSE "none", None)

increase_key(heap, size, d, index, key) ==
    IF ~InRange(heap, index) THEN Outcome(heap, size, "IndexError", None)
    ELSE IF key <= Get(heap, index) THEN Outcome(heap, size, "IllegalKeyError", None)
    ELSE LET r == increase_key_loop(Put(heap, index, key), d, index, key) IN
         Outcome(r.heap, size, IF r.err THEN "IndexError" ELSE "none", None)

\* ---- DAryHeap.max_heap_insert -----------------------------------------------
\* the loop of lines 197-199, the same text as the loop of increase_key
RECURSIVE max_heap_insert_loop(_, _, _, _)
max_heap_insert_loop(heap, d, index, key) ==
    IF ~(index > 0) THEN [err |-> FALSE, heap |-> heap]
    ELSE IF ~InRange(heap, parent(d, index)) THEN [err |-> TRUE, heap |-> heap]
    ELSE IF ~(key > Get(heap, parent(d, index))) THEN [err |-> FALSE, heap |-> heap]
    ELSE LET sw == _swap(heap, index, parent(d, index)) IN
         IF sw.err THEN sw
         ELSE max_heap_insert_loop(sw.heap, d, parent(d, index), key)

\* one test of the loop condition of max_heap_insert and one run of its body
max_heap_insert_step(heap, d, index, key) ==
    IF ~(index > 0) THEN [err |-> FALSE, heap |-> heap, index |-> index, more |-> FALSE]
    ELSE IF ~InRange(heap, parent(d, index))
         THEN [err |-> TRUE, heap |-> heap, index |-> index, more |-> FALSE]
    ELSE IF ~(key > Get(heap, parent(d, index)))
         THEN [err |-> FALSE, heap |-> heap, index |-> index, more |-> FALSE]
    ELSE LET sw == _swap(heap, index, parent(d, index)) IN
         IF sw.err
         THEN [err |-> TRUE, heap |-> heap, index |-> index, more |-> FALSE]
         ELSE [err |-> FALSE, heap |-> sw.heap, index |-> parent(d, index),
               more |-> TRUE]

\* the size is incremented and the key appended before the loop starts at
\* index = size - 1, which is the key's position only when size = len
max_heap_insert(heap, size, d, key) ==
    LET r == max_heap_insert_loop(Append(heap, key), d, (size + 1) - 1, key) IN
    Outcome(r.heap, size + 1, IF r.err THEN "IndexError" ELSE "none", None)

\* ---- DAryHeap.delete_key ----------------------------------------------------
\* delete_key without its upward loop
delete_key_loop_skipped(heap, size, d, key) ==
    [err |-> FALSE, heap |-> heap, key |-> key]

\* "while 1 <= key < size and heap[parent(key)] < heap[key]: swap; key = parent"
\* ends in the index the loop stopped at
RECURSIVE delete_key_loop(_, _, _, _)
delete_key_loop(heap, size, d, key) ==
    IF ~(1 <= key /\ key < size) THEN [err |-> FALSE, heap |-> heap, key |-> key]
    ELSE IF ~InRange(heap, parent(d, key)) \/ ~InRange(heap, key)
         THEN [err |-> TRUE, heap |-> heap, key |-> key]
    ELSE IF ~(Get(heap, parent(d, key)) < Get(heap, key))
         THEN [err |-> FALSE, heap |-> heap, key |-> key]
    ELSE LET sw == _swap(heap, key, parent(d, key)) IN
         IF sw.err THEN [err |-> TRUE, heap |-> heap, key |-> key]
         ELSE delete_key_loop(sw.heap, size, d, parent(d, key))

\* one test of the loop condition of delete_key and one run of its body
delete_key_step(heap, size, d, key) ==
    IF ~(1 <= key /\ key < size)
    THEN [err |-> FALSE, heap |-> heap, key |-> key, more |-> FALSE]
    ELSE IF ~InRange(heap, parent(d, key)) \/ ~InRange(heap, key)
         THEN [err |-> TRUE, heap |-> heap, key |-> key, more |-> FALSE]
    ELSE IF ~(Get(heap, parent(d, key)) < Get(heap, key))
         THEN [err |-> FALSE, heap |-> heap, key |-> key, more |-> FALSE]
    ELSE LET sw == _swap(heap, key, parent(d, key)) IN
         IF sw.err
         THEN [err |-> TRUE, heap |-> heap, key |-> key, more |-> FALSE]
         ELSE [err |-> FALSE, heap |-> sw.heap, key |-> parent(d, key),
               more |-> TRUE]

delete_key(heap, size, d, key) ==
    IF key >= size \/ key < 0 THEN Outcome(heap, size, "IndexError", None)
    ELSE IF ~InRange(heap, size - 1) \/ ~InRange(heap, key)
         THEN Outcome(heap, size, "IndexError", None)
    ELSE LET h1 == Pop(Put(heap, key, Get(heap, size - 1)))
             up == delete_key_loop(h1, size - 1, d, key)
             dn == IF up.err THEN [err |-> TRUE, heap |-> up.heap]
                   ELSE max_heapify(up.heap, size - 1, d, up.key)
         IN  Outcome(dn.heap, size - 1, IF dn.err THEN "IndexError" ELSE "none", None)

\* ---- DAryHeap.extract_max ---------------------------------------------------
\* extract_max that does not move the last element into position 0
extract_max_keeps_root(heap, size, d) ==
    IF size < 1 THEN Outcome(heap, size, "HeapUnderflowError", None)
    ELSE IF ~InRange(heap, 0) \/ ~InRange(heap, size - 1)
         THEN Outcome(heap, size, "IndexError", None)
    ELSE LET max_value == Get(heap, 0)
             r == max_heapify(Pop(heap), size - 1, d, 0)
         IN  Outcome(r.heap, size - 1, IF r.err THEN "IndexError" ELSE "none",
                     IF r.err THEN None ELSE max_value)

extract_max(heap, size, d) ==
    IF size < 1 THEN Outcome(heap, size, "HeapUnderflowError", None)
    ELSE IF ~InRange(heap, 0) \/ ~InRange(heap, size - 1)
         THEN Outcome(heap, size, "IndexError", None)
    ELSE LET max_value == Get(heap, 0)
             h1 == Pop(Put(heap, 0, Get(heap, size - 1)))
             r  == max_heapify(h1, size - 1, d, 0)
         IN  Outcome(r.heap, size - 1, IF r.err THEN "IndexError" ELSE "none",
                     IF r.err THEN None ELSE max_value)

\* ---- DAryHeap.heap_sort -----------------------------------------------------
\* the loop of heap_sort without "size -= 1"
RECURSIVE heap_sort_loop_no_shrink(_, _, _, _)
heap_sort_loop_no_shrink(array, size, d, i) ==
    IF i < 1 THEN [err |-> FALSE, heap |-> array, size |-> size]
    ELSE LET sw == _swap(array, 0, i) IN
         IF sw.err THEN [err |-> TRUE, heap |-> array, size |-> size]
         ELSE LET r == max_heapify(sw.heap, size, d, 0) IN
              IF r.err THEN [err |-> TRUE, heap |-> r.heap, size |-> size]
              ELSE heap_sort_loop_no_shrink(r.heap, size, d, i - 1)

\* "for i in range(size - 1, 0, -1): swap(array, 0, i); size -= 1;
\*  max_heapify(array, 0)" from i on
RECURSIVE heap_sort_loop(_, _, _, _)
heap_sort_loop(array, size, d, i) ==
    IF i < 1 THEN [err |-> FALSE, heap |-> array, size |-> size]
    ELSE LET sw == _swap(array, 0, i) IN
         IF sw.err THEN [err |-> TRUE, heap |-> array, size |-> size]
         ELSE LET r == max_heapify(sw.heap, size - 1, d, 0) IN
              IF r.err THEN [err |-> TRUE, heap |-> r.heap, size |-> size - 1]
              ELSE heap_sort_loop(r.heap, size - 1, d, i - 1)

\* build_max_heap makes array the instance's list, so the list the instance
\* holds afterwards is the sorted array
heap_sort(heap, size, d, array) ==
    LET temp_size == Len(array)
        b == build_max_heap(heap, Len(array), d, array)
        r == heap_sort_loop(b.heap, Len(array), d, Len(array) - 1)
    IN  IF b.err # "none" THEN b
        ELSE IF r.err THEN Outcome(r.heap, r.size, "IndexError", None)
        ELSE Outcome(r.heap, temp_size, "none", None)

\* ---- DAryHeap.__init__ ------------------------------------------------------
\* __init__ without the test of children
__init___unchecked(heap_size_arg, children_arg) ==
    [made |-> TRUE, children |-> children_arg,
     out |-> Outcome(<<>>, heap_size_arg, "none", None)]

\* children < 2 raises IllegalChildrenError and no instance exists; otherwise
\* the list is empty and the logical size is the heap_size argument
__init__(heap_size_arg, children_arg) ==
    IF children_arg < 2
    THEN [made |-> FALSE, children |-> 0,
          out |-> Outcome(<<>>, 0, "IllegalChildrenError", None)]
    ELSE [made |-> TRUE, children |-> children_arg,
          out |-> Outcome(<<>>, heap_size_arg, "none", None)]

\* ---- state -------------------------------------------------------------------
VARIABLES
    heap,         \* self._heap
    heap_size,    \* self._heap_size
    children,     \* self._children
    constructed,  \* whether __init__ returned an instance
    op,           \* the call whose outcome the caller holds, "none" once it moved on
    arg,          \* its arguments, as a sequence
    err,          \* the exception it raised, "none" when it returned
    ret,          \* the value it returned
    prevHeap,     \* self._heap when that call started
    prevSize,     \* self._heap_size when that call started
    extracted,    \* keys returned by the running series of extract_max calls
    runSize,      \* the logical size when that series started (valid calls only)
    input,        \* the list a caller is about to pass to build_max_heap or heap_sort
    phase,        \* position in the insert/extract/build/extract script, or
                  \* in a call followed loop turn by loop turn
    inserted,     \* the keys the script inserted, in order
    firstRun      \* the keys the script's first series of extractions returned

vars == <<heap, heap_size, children, constructed, op, arg, err, ret,
          prevHeap, prevSize, extracted, runSize, input, phase, inserted, firstRun>>

history == <<prevHeap, prevSize, extracted, runSize>>

script == <<input, phase, inserted, firstRun>>

\* the instance after a call with outcome r
Call(name, a, r) ==
    /\ op' = name
    /\ arg' = a
    /\ heap' = r.heap
    /\ heap_size' = r.size
    /\ err' = r.err
    /\ ret' = r.ret
    /\ UNCHANGED <<children, constructed>>

\* keep the list and the size the call started from
Remember ==
    /\ prevHeap' = heap
    /\ prevSize' = heap_size

\* the caller is done with the outcome of the last call; the instance stays
MoveOn ==
    /\ op # "none"
    /\ constructed
    /\ op' = "none"
    /\ arg' = <<>>
    /\ err' = "none"
    /\ ret' = None
    /\ prevHeap' = <<>>
    /\ prevSize' = 0
    /\ UNCHANGED <<heap, heap_size, children, constructed, extracted, runSize,
                   input, phase, inserted, firstRun>>

\* a call other than extract_max ends the series of extractions
EndRun(r) ==
    /\ extracted' = <<>>
    /\ runSize' = r.size

\* extract_max extends the series when it returns a key
ExtendRun(r) ==
    /\ extracted' = IF r.err = "none" THEN Append(extracted, r.ret) ELSE extracted
    /\ UNCHANGED runSize

\* the state DAryHeap(heap_size_arg, children_arg) leaves
Construct(heap_size_arg, children_arg) ==
    LET c == __init__(heap_size_arg, children_arg) IN
    /\ constructed = c.made
    /\ children = c.children
    /\ heap = c.out.heap
    /\ heap_size = c.out.size
    /\ err = c.out.err
    /\ ret = c.out.ret
    /\ op = "__init__"
    /\ arg = <<heap_size_arg, children_arg>>
    /\ prevHeap = <<>>
    /\ prevSize = 0
    /\ extracted = <<>>
    /\ runSize = 0
    /\ inserted = <<>>
    /\ firstRun = <<>>

\* ---- every call, with every argument -----------------------------------------
Init ==
    /\ \E hs \in 0 .. MaxLen, ch \in -1 .. MaxChildren : Construct(hs, ch)
    /\ input = <<>>
    /\ phase = "none"

BuildMaxHeap ==
    /\ constructed
    /\ op = "none"
    /\ \E data \in Lists(ArgKeys, MaxLen) :
         LET r == build_max_heap(heap, heap_size, children, data) IN
         Call("build_max_heap", data, r) /\ Remember
    /\ UNCHANGED <<extracted, runSize, script>>

MaxHeapInsert ==
    /\ constructed
    /\ op = "none"
    /\ Len(heap) < MaxLen
    /\ heap_size < MaxLen
    /\ \E key \in ArgKeys :
         LET r == max_heap_insert(heap, heap_size, children, key) IN
         Call("max_heap_insert", <<key>>, r) /\ Remember
    /\ UNCHANGED <<extracted, runSize, script>>

IncreaseKey ==
    /\ constructed
    /\ op = "none"
    /\ \E index \in -(MaxLen + 1) .. MaxLen, key \in ArgKeys :
         LET r == increase_key(heap, heap_size, children, index, key) IN
         Call("increase_key", <<index, key>>, r) /\ Remember
    /\ UNCHANGED <<extracted, runSize, script>>

DeleteKey ==
    /\ constructed
    /\ op = "none"
    /\ \E key \in -1 .. MaxLen :
         LET r == delete_key(heap, heap_size, children, key) IN
         Call("delete_key", <<key>>, r) /\ Remember
    /\ UNCHANGED <<extracted, runSize, script>>

ExtractMax ==
    /\ constructed
    /\ op = "none"
    /\ LET r == extract_max(heap, heap_size, children) IN
       Call("extract_max", <<>>, r) /\ Remember
    /\ UNCHANGED <<extracted, runSize, script>>

HeapSort ==
    /\ constructed
    /\ op = "none"
    /\ \E array \in Lists(ArgKeys, MaxLen) :
         LET r == heap_sort(heap, heap_size, children, array) IN
         Call("heap_sort", array, r) /\ Remember
    /\ UNCHANGED <<extracted, runSize, script>>

Next ==
    \/ MaxHeapInsert
    \/ BuildMaxHeap
    \/ IncreaseKey
    \/ DeleteKey
    \/ ExtractMax
    \/ HeapSort
    \/ MoveOn

Spec == Init /\ [][Next]_vars

\* ---- calls with valid arguments on a heap constructed with size 0 ------------
InitValid ==
    /\ \E ch \in 2 .. MaxChildren : Construct(0, ch)
    /\ input = <<>>
    /\ phase = "none"

InsertValid ==
    /\ op = "none"
    /\ Len(heap) < MaxHeapLen
    /\ \E key \in Keys :
         LET r == max_heap_insert(heap, heap_size, children, key) IN
         Call("max_heap_insert", <<key>>, r) /\ Remember /\ EndRun(r)
    /\ UNCHANGED script

IncreaseKeyValid ==
    /\ op = "none"
    /\ \E index \in 0 .. heap_size - 1 :
         \E key \in {k \in Keys : k > Get(heap, index)} :
           LET r == increase_key(heap, heap_size, children, index, key) IN
           Call("increase_key", <<index, key>>, r) /\ Remember /\ EndRun(r)
    /\ UNCHANGED script

DeleteKeyValid ==
    /\ op = "none"
    /\ \E key \in 0 .. heap_size - 1 :
         LET r == delete_key(heap, heap_size, children, key) IN
         Call("delete_key", <<key>>, r) /\ Remember /\ EndRun(r)
    /\ UNCHANGED script

\* extract_max, also on the empty heap, where it raises
ExtractMaxValid ==
    /\ op = "none"
    /\ LET r == extract_max(heap, heap_size, children) IN
       Call("extract_max", <<>>, r) /\ Remember /\ ExtendRun(r)
    /\ UNCHANGED script

NextValid ==
    \/ InsertValid
    \/ IncreaseKeyValid
    \/ DeleteKeyValid
    \/ ExtractMaxValid
    \/ MoveOn

SpecValid == InitValid /\ [][NextValid]_vars

\* ---- build_max_heap and heap_sort on every input ------------------------------
\* an instance constructed with any size, and the list the caller will pass
InitData ==
    /\ \E hs \in 0 .. MaxDataLen, ch \in 2 .. MaxChildren : Construct(hs, ch)
    /\ input \in Lists(Keys, MaxDataLen)
    /\ phase = "none"

BuildData ==
    /\ op = "__init__"
    /\ LET r == build_max_heap(heap, heap_size, children, input) IN
       Call("build_max_heap", input, r) /\ Remember
    /\ UNCHANGED <<extracted, runSize, script>>

\* heap_sort on the fresh instance or on what build_max_heap left of it
SortData ==
    /\ op \in {"__init__", "build_max_heap"}
    /\ LET r == heap_sort(heap, heap_size, children, input) IN
       Call("heap_sort", input, r) /\ Remember
    /\ UNCHANGED <<extracted, runSize, script>>

\* heap_sort once more, on the list the previous heap_sort sorted in place
SortAgain ==
    /\ op = "heap_sort"
    /\ LET r == heap_sort(heap, heap_size, children, heap) IN
       Call("heap_sort", heap, r) /\ Remember
    /\ UNCHANGED <<extracted, runSize, script>>

\* h.max_heapify(input, node) on the fresh instance: the caller's list is
\* changed in place, the instance's own list is not involved
HeapifyData ==
    /\ op = "__init__"
    /\ \E node \in 0 .. MaxDataLen :
         LET r == max_heapify(input, heap_size, children, node) IN
         /\ op' = "max_heapify"
         /\ arg' = <<input, node>>
         /\ err' = IF r.err THEN "IndexError" ELSE "none"
         /\ ret' = None
         /\ input' = r.heap
    /\ UNCHANGED <<heap, heap_size, children, constructed, history,
                   phase, inserted, firstRun>>

NextData ==
    \/ BuildData
    \/ SortData
    \/ SortAgain
    \/ HeapifyData

SpecData == InitData /\ [][NextData]_vars

\* ---- insert then extract, against build then extract --------------------------
\* the permutations of a list
Perms(s) == {t \in SeqsOfLen(Elems(s), Len(s)) : SameBag(s, t)}

InitRound ==
    /\ \E ch \in 2 .. MaxChildren : Construct(0, ch)
    /\ input = <<>>
    /\ phase = "insert"

RoundInsert ==
    /\ phase = "insert"
    /\ Len(inserted) < MaxRound
    /\ \E key \in Keys :
         /\ Call("max_heap_insert", <<key>>,
                 max_heap_insert(heap, heap_size, children, key))
         /\ inserted' = Append(inserted, key)
    /\ UNCHANGED <<history, input, phase, firstRun>>

\* the first series of extractions ends with the call that raises
RoundExtract ==
    /\ phase \in {"insert", "drain"}
    /\ LET r == extract_max(heap, heap_size, children) IN
         /\ Call("extract_max", <<>>, r)
         /\ firstRun' = IF r.err = "none" THEN Append(firstRun, r.ret) ELSE firstRun
         /\ phase' = IF r.err = "none" THEN "drain" ELSE "construct"
    /\ UNCHANGED <<history, input, inserted>>

\* a second instance with the same branching factor and any initial size
RoundConstruct ==
    /\ phase = "construct"
    /\ \E hs \in 0 .. MaxRound :
         LET c == __init__(hs, children) IN
         /\ Call("__init__", <<hs, children>>, c.out)
    /\ phase' = "build"
    /\ UNCHANGED <<history, input, inserted, firstRun>>

\* build_max_heap on the inserted keys in any order; an exception ends the script
RoundBuild ==
    /\ phase = "build"
    /\ \E data \in Perms(inserted) :
         LET r == build_max_heap(heap, heap_size, children, data) IN
         /\ Call("build_max_heap", data, r)
         /\ input' = data
         /\ phase' = IF r.err = "none" THEN "drain2" ELSE "done"
    /\ UNCHANGED <<history, inserted, firstRun>>

RoundExtract2 ==
    /\ phase = "drain2"
    /\ LET r == extract_max(heap, heap_size, children) IN
         /\ Call("extract_max", <<>>, r)
         /\ ExtendRun(r)
         /\ phase' = IF r.err = "none" THEN "drain2" ELSE "done"
    /\ UNCHANGED <<prevHeap, prevSize, input, inserted, firstRun>>

NextRound ==
    \/ RoundInsert
    \/ RoundExtract
    \/ RoundConstruct
    \/ RoundBuild
    \/ RoundExtract2

SpecRound == InitRound /\ [][NextRound]_vars

\* ---- k_child and parent called on their own -----------------------------------
InitIndex ==
    /\ \E ch \in 2 .. MaxChildren : Construct(0, ch)
    /\ input = <<>>
    /\ phase = "none"

\* h.k_child(k, parent_index) for a parent index >= 0 and k in 1 .. children
KChild ==
    /\ \E k \in 1 .. children, parent_index \in 0 .. MaxIndex :
         /\ op' = "k_child"
         /\ arg' = <<k, parent_index>>
         /\ ret' = k_child(children, k, parent_index)
    /\ UNCHANGED <<heap, heap_size, children, constructed, err, history, script>>

\* h.parent(c) for the child index c the last k_child call returned
ParentOfChild ==
    /\ op = "k_child"
    /\ op' = "parent"
    /\ arg' = <<ret>>
    /\ ret' = parent(children, ret)
    /\ UNCHANGED <<heap, heap_size, children, constructed, err, history, script>>

NextIndex ==
    \/ KChild
    \/ ParentOfChild

SpecIndex == InitIndex /\ [][NextIndex]_vars

\* ---- the loops, one turn at a time ---------------------------------------------
\* While a call is in progress (phase "running", or "sift_down" in the
\* max_heapify that ends delete_key), arg holds the current values of the
\* names its loop reassigns: node for max_heapify, index and key for
\* increase_key and max_heap_insert, key for delete_key, followed by the
\* index the call was entered with.  The call ends in phase "returned" or
\* "raised".
\* an instance constructed with the length of the list the caller holds
InitSteps ==
    /\ \E ch \in 2 .. MaxChildren :
         \E data \in Lists(ArgKeys, MaxDataLen) :
           Construct(Len(data), ch) /\ input = data
    /\ phase = "none"

StepTo(name, a, h, s, list, e, ph) ==
    /\ op' = name
    /\ arg' = a
    /\ heap' = h
    /\ heap_size' = s
    /\ input' = list
    /\ err' = e
    /\ phase' = ph
    /\ UNCHANGED <<children, constructed, ret, history, inserted, firstRun>>

\* where a turn that raised, goes on, or left the loop takes the call
Raised(r) == IF r.err THEN "IndexError" ELSE "none"

After(r, going, left) == IF r.err THEN "raised" ELSE IF r.more THEN going ELSE left

\* h.max_heapify(input, node) is entered
StartMaxHeapify ==
    /\ op = "__init__"
    /\ phase = "none"
    /\ \E node \in 0 .. Len(input) - 1 :
         StepTo("max_heapify", <<node, node>>, heap, heap_size, input, "none", "running")

MaxHeapifyStep ==
    /\ op = "max_heapify"
    /\ phase = "running"
    /\ LET r == max_heapify_step(input, heap_size, children, arg[1]) IN
       StepTo("max_heapify", <<r.node, arg[2]>>, heap, heap_size, r.heap, Raised(r),
              After(r, "running", "returned"))

\* lines 174-178 of increase_key, on the heap build_max_heap left, with an
\* index of the list and a key greater than the one it holds
StartIncreaseKey ==
    /\ op = "build_max_heap"
    /\ err = "none"
    /\ phase = "none"
    /\ \E index \in 0 .. Len(heap) - 1 :
         \E key \in {k \in Keys : k > Get(heap, index)} :
           StepTo("increase_key", <<index, key, index>>, Put(heap, index, key),
                  heap_size, input, "none", "running")

IncreaseKeyStep ==
    /\ op = "increase_key"
    /\ phase = "running"
    /\ LET r == increase_key_step(heap, children, arg[1], arg[2]) IN
       StepTo("increase_key", <<r.index, arg[2], arg[3]>>, r.heap, heap_size, input,
              Raised(r), After(r, "running", "returned"))

\* lines 193-195 of max_heap_insert
StartMaxHeapInsert ==
    /\ op = "build_max_heap"
    /\ err = "none"
    /\ phase = "none"
    /\ \E key \in Keys :
         StepTo("max_heap_insert", <<(heap_size + 1) - 1, key, (heap_size + 1) - 1>>,
                Append(heap, key), heap_size + 1, input, "none", "running")

MaxHeapInsertStep ==
    /\ op = "max_heap_insert"
    /\ phase = "running"
    /\ LET r == max_heap_insert_step(heap, children, arg[1], arg[2]) IN
       StepTo("max_heap_insert", <<r.index, arg[2], arg[3]>>, r.heap, heap_size, input,
              Raised(r), After(r, "running", "returned"))

\* lines 211-216 of delete_key, with a position below the logical size
StartDeleteKey ==
    /\ op = "build_max_heap"
    /\ err = "none"
    /\ phase = "none"
    /\ \E key \in 0 .. heap_size - 1 :
         StepTo("delete_key", <<key, key>>,
                Pop(Put(heap, key, Get(heap, heap_size - 1))),
                heap_size - 1, input, "none", "running")

\* the loop of delete_key; leaving it enters max_heapify(self._heap, key)
DeleteKeyStep ==
    /\ op = "delete_key"
    /\ phase = "running"
    /\ LET r == delete_key_step(heap, heap_size, children, arg[1]) IN
       StepTo("delete_key", <<r.key, arg[2]>>, r.heap, heap_size, input, Raised(r),
              After(r, "running", "sift_down"))

DeleteKeyMaxHeapifyStep ==
    /\ op = "delete_key"
    /\ phase = "sift_down"
    /\ LET r == max_heapify_step(heap, heap_size, children, arg[1]) IN
       StepTo("delete_key", <<r.node, arg[2]>>, r.heap, heap_size, input, Raised(r),
              After(r, "sift_down", "returned"))

NextSteps ==
    \/ BuildData
    \/ StartMaxHeapify
    \/ MaxHeapifyStep
    \/ StartIncreaseKey
    \/ IncreaseKeyStep
    \/ StartMaxHeapInsert
    \/ MaxHeapInsertStep
    \/ StartDeleteKey
    \/ DeleteKeyStep
    \/ DeleteKeyMaxHeapifyStep

SpecSteps == InitSteps /\ [][NextSteps]_vars

\* the next turn of the loop a call is in
Turn ==
    \/ MaxHeapifyStep
    \/ IncreaseKeyStep
    \/ MaxHeapInsertStep
    \/ DeleteKeyStep
    \/ DeleteKeyMaxHeapifyStep

\* a call that is in a loop takes the next turn of that loop; nothing makes
\* a caller start a call
SpecStepsFair == SpecSteps /\ WF_vars(Turn)

\* ---- properties ----------------------------------------------------------------
\* the d-ary max-heap property over the first size elements of h
IsMaxHeap(h, size, d) ==
    /\ size <= Len(h)
    /\ \A i \in 0 .. size - 1 : \A k \in 1 .. d :
         d * i + k < size => h[i + 1] >= h[d * i + k + 1]

IsAscending(s) == \A i \in 1 .. Len(s) - 1 : s[i] <= s[i + 1]

IsDescending(s) == \A i \in 1 .. Len(s) - 1 : s[i] >= s[i + 1]

\* a caller inserting keys one after the other, from outcome o on
RECURSIVE InsertAll(_, _, _)
InsertAll(o, d, keys) ==
    IF keys = <<>> THEN o
    ELSE InsertAll(max_heap_insert(o.heap, o.size, d, Head(keys)), d, Tail(keys))

\* a caller extracting until extract_max raises: the keys returned, the exception
RECURSIVE Drain(_, _, _)
Drain(o, d, got) ==
    LET r == extract_max(o.heap, o.size, d) IN
    IF r.err # "none" THEN [keys |-> got, err |-> r.err]
    ELSE Drain(r, d, Append(got, r.ret))

\* C1: from a heap constructed with size 0, after every sequence of
\* max_heap_insert, extract_max, increase_key and delete_key calls with valid
\* arguments, every element is >= each of its children d*i+1 .. d*i+d that
\* lies below the logical size.
C1_MaxHeapProperty ==
    IsMaxHeap(heap, heap_size, children)

C1_Witness ==
    /\ op = "delete_key"
    /\ err = "none"
    /\ heap_size >= 5
    /\ heap # Pop(prevHeap)

\* C2: after construction and after every public call, the logical size
\* equals the length of the list.
C2_SizeIsLength ==
    constructed => heap_size = Len(heap)

\* C3: build_max_heap(data) returns without an exception and leaves the
\* max-heap property over the whole of data, whatever size the instance was
\* constructed with.
C3_BuildMakesHeap ==
    op = "build_max_heap" =>
        /\ err = "none"
        /\ IsMaxHeap(heap, Len(heap), children)

\* C4: on a non-empty heap with the max-heap property, extract_max returns a
\* key >= every key of the heap, and leaves the keys it held minus one
\* occurrence of the returned key, with the size one less.
C4_ExtractMaxRemovesMaximum ==
    (/\ op = "extract_max"
     /\ prevSize >= 1
     /\ prevSize = Len(prevHeap)
     /\ IsMaxHeap(prevHeap, prevSize, children)) =>
        /\ err = "none"
        /\ \A i \in 1 .. Len(prevHeap) : ret >= prevHeap[i]
        /\ SameBag(Append(heap, ret), prevHeap)
        /\ heap_size = prevSize - 1
        /\ Len(heap) = prevSize - 1

C4_Witness ==
    /\ op = "extract_max"
    /\ err = "none"
    /\ prevSize >= 5
    /\ IsMaxHeap(prevHeap, prevSize, children)
    /\ heap # Pop(Put(prevHeap, 0, prevHeap[prevSize]))

\* C5: a series of extract_max calls on a heap of n keys returns n keys in
\* non-increasing order and then raises HeapUnderflowError; with d = 2 the
\* keys 4, 1, 7, 3, 9, 2 inserted in that order come out as 9, 7, 4, 3, 2, 1
\* (a scenario that depends on no state: it is evaluated in the states right
\* after construction).
C5_ExtractionsDescend ==
    /\ IsDescending(extracted)
    /\ Len(extracted) + heap_size = runSize
    /\ (op = "extract_max" /\ err # "none") =>
           /\ err = "HeapUnderflowError"
           /\ Len(extracted) = runSize
    /\ op = "__init__" =>
           Drain(InsertAll(Outcome(<<>>, 0, "none", None), 2, <<4, 1, 7, 3, 9, 2>>),
                 2, <<>>)
               = [keys |-> <<9, 7, 4, 3, 2, 1>>, err |-> "HeapUnderflowError"]

C5_Witness ==
    /\ op = "extract_max"
    /\ err = "HeapUnderflowError"
    /\ Len(extracted) >= 5
    /\ extracted[1] > extracted[3]
    /\ extracted[3] > extracted[5]

\* C6: heap_sort leaves its argument a non-decreasing permutation of what it
\* was, whatever state the instance was in; an already sorted argument is
\* left as it is.
C6_HeapSortSorts ==
    op = "heap_sort" =>
        /\ err = "none"
        /\ IsAscending(heap)
        /\ SameBag(heap, arg)
        /\ (IsAscending(arg) => heap = arg)

C6_Witness ==
    /\ op = "heap_sort"
    /\ Len(arg) >= 4
    /\ ~IsAscending(arg)
    /\ ~IsDescending(arg)
    /\ prevSize # Len(arg)

\* C7: on a heap with the max-heap property, delete_key(position) with
\* 0 <= position < size removes one occurrence of the key at position and
\* nothing else, makes the size one less and leaves the max-heap property,
\* whether the moved last element goes up or down; deleting the last
\* position only drops it.
C7_DeleteKeyRemovesOne ==
    (/\ op = "delete_key"
     /\ prevSize = Len(prevHeap)
     /\ IsMaxHeap(prevHeap, prevSize, children)
     /\ 0 <= arg[1]
     /\ arg[1] < prevSize) =>
        /\ err = "none"
        /\ heap_size = prevSize - 1
        /\ Len(heap) = prevSize - 1
        /\ SameBag(Append(heap, prevHeap[arg[1] + 1]), prevHeap)
        /\ IsMaxHeap(heap, heap_size, children)
        /\ (arg[1] = prevSize - 1 => heap = Pop(prevHeap))

\* the moved last element is larger than the parent of the position it fills
C7_Witness ==
    /\ op = "delete_key"
    /\ err = "none"
    /\ arg[1] >= 1
    /\ arg[1] < prevSize - 1
    /\ prevHeap[prevSize] > prevHeap[((arg[1] - 1) \div children) + 1]

\* C8: increase_key with a key <= the current one raises IllegalKeyError,
\* delete_key with a position outside [0, size) raises IndexError and
\* extract_max on an empty heap raises HeapUnderflowError; whenever one of
\* these three calls raises, the list and the logical size are what they were.
C8_FailedCallsChangeNothing ==
    /\ (op \in {"increase_key", "delete_key", "extract_max"} /\ err # "none") =>
           (heap = prevHeap /\ heap_size = prevSize)
    /\ (op = "increase_key" /\ InRange(prevHeap, arg[1])
            /\ arg[2] <= Get(prevHeap, arg[1])) => err = "IllegalKeyError"
    /\ (op = "delete_key" /\ (arg[1] < 0 \/ arg[1] >= prevSize)) =>
           err = "IndexError"
    /\ (op = "extract_max" /\ prevSize = 0) => err = "HeapUnderflowError"

C8_Witness ==
    /\ op = "increase_key"
    /\ err = "IllegalKeyError"
    /\ Len(heap) >= 2
    /\ arg[1] = 1

\* C9: increase_key with an index outside [0, size) raises IndexError and
\* changes no element.
C9_IncreaseKeyRejectsIndex ==
    (op = "increase_key" /\ (arg[1] < 0 \/ arg[1] >= prevSize)) =>
        (err = "IndexError" /\ heap = prevHeap)

\* C10: inserting keys one by one into an empty heap and extracting until
\* extract_max raises returns the same descending sequence as build_max_heap
\* on those keys followed by extracting until it raises, and that sequence
\* holds exactly the keys.
C10_InsertAndBuildAgree ==
    phase = "done" =>
        /\ extracted = firstRun
        /\ IsDescending(firstRun)
        /\ SameBag(firstRun, inserted)

\* C11: on a heap with the max-heap property, increase_key(index, key) with
\* 0 <= index < size and key greater than every key of the heap returns with
\* key at position 0, the max-heap property holding, the size unchanged and
\* the keys those of the heap with the old key at index replaced by key; on
\* the heap built from 1, 2, 3, 4, 5 with d = 3, increase_key(4, 10) makes the
\* root 10 (a scenario that depends on no state: it is evaluated in the
\* states right after construction).
C11_IncreaseKeyToRoot ==
    /\ (/\ op = "increase_key"
        /\ prevSize = Len(prevHeap)
        /\ IsMaxHeap(prevHeap, prevSize, children)
        /\ 0 <= arg[1]
        /\ arg[1] < prevSize
        /\ \A i \in 1 .. Len(prevHeap) : arg[2] > prevHeap[i]) =>
           /\ err = "none"
           /\ Get(heap, 0) = arg[2]
           /\ heap_size = prevSize
           /\ IsMaxHeap(heap, heap_size, children)
           /\ SameBag(heap, Put(prevHeap, arg[1], arg[2]))
    /\ op = "__init__" =>
       LET built == build_max_heap(<<>>, 5, 3, <<1, 2, 3, 4, 5>>)
           r == increase_key(built.heap, built.size, 3, 4, 10)
       IN  /\ built.err = "none"
           /\ IsMaxHeap(built.heap, built.size, 3)
           /\ r.err = "none"
           /\ Get(r.heap, 0) = 10
           /\ IsMaxHeap(r.heap, r.size, 3)
           /\ SameBag(r.heap, <<2, 3, 4, 5, 10>>)

\* the raised key starts two levels below the root
C11_Witness ==
    /\ op = "increase_key"
    /\ err = "none"
    /\ arg[1] >= 1
    /\ parent(children, arg[1]) >= 1
    /\ \A i \in 1 .. Len(prevHeap) : arg[2] > prevHeap[i]
    /\ Get(heap, 0) = arg[2]

\* ---- a binary max-heap after CLRS, chapter 6, with 0-based indices ------------
\* the reference keeps exactly its keys: the heap size is the length of A
RefLeft(i) == 2 * i + 1

RefRight(i) == 2 * i + 2

RefParent(i) == (i - 1) \div 2

RefExchange(A, i, j) == [A EXCEPT ![i + 1] = A[j + 1], ![j + 1] = A[i + 1]]

\* MAX-HEAPIFY(A, i)
RECURSIVE RefMaxHeapify(_, _)
RefMaxHeapify(A, i) ==
    LET l == RefLeft(i)
        r == RefRight(i)
        first == IF l < Len(A) /\ A[l + 1] > A[i + 1] THEN l ELSE i
        largest == IF r < Len(A) /\ A[r + 1] > A[first + 1] THEN r ELSE first
    IN  IF largest # i THEN RefMaxHeapify(RefExchange(A, i, largest), largest)
        ELSE A

\* BUILD-MAX-HEAP(A): MAX-HEAPIFY from the last internal node down to the root
RECURSIVE RefBuildFrom(_, _)
RefBuildFrom(A, i) ==
    IF i < 0 THEN A ELSE RefBuildFrom(RefMaxHeapify(A, i), i - 1)

RefBuildMaxHeap(A) == RefBuildFrom(A, Len(A) \div 2 - 1)

\* the loop of HEAP-INCREASE-KEY
RECURSIVE RefSiftUp(_, _)
RefSiftUp(A, i) ==
    IF i > 0 /\ A[RefParent(i) + 1] < A[i + 1]
    THEN RefSiftUp(RefExchange(A, i, RefParent(i)), RefParent(i))
    ELSE A

RefIncreaseKey(A, i, key) == RefSiftUp([A EXCEPT ![i + 1] = key], i)

RefInsert(A, key) == RefSiftUp(Append(A, key), Len(A))

\* HEAP-EXTRACT-MAX(A)
RefExtractMax(A) ==
    [ret |-> A[1],
     heap |-> RefMaxHeapify(Pop([A EXCEPT ![1] = A[Len(A)]]), 0)]

\* HEAP-DELETE(A, i): the last key takes position i and moves up or down
RefDelete(A, i) ==
    LET B == Pop([A EXCEPT ![i + 1] = A[Len(A)]]) IN
    IF i >= Len(B) THEN B
    ELSE IF i > 0 /\ B[RefParent(i) + 1] < B[i + 1] THEN RefSiftUp(B, i)
    ELSE RefMaxHeapify(B, i)

\* the call the caller holds was made on a binary heap whose logical size is
\* the length of its list
OnBinaryHeap ==
    /\ constructed
    /\ children = 2
    /\ prevSize = Len(prevHeap)

\* C12: with branching factor 2, build_max_heap on any list, and
\* max_heap_insert, extract_max, increase_key and delete_key with valid
\* arguments on a heap with the max-heap property, leave the list the
\* reference binary max-heap leaves, and extract_max returns the key the
\* reference returns.
C12_BinaryHeapReference ==
    /\ (OnBinaryHeap /\ op = "build_max_heap") =>
           (err = "none" /\ heap = RefBuildMaxHeap(arg))
    /\ (OnBinaryHeap /\ IsMaxHeap(prevHeap, prevSize, 2)) =>
           /\ op = "max_heap_insert" =>
                  (err = "none" /\ heap = RefInsert(prevHeap, arg[1]))
           /\ (op = "extract_max" /\ prevSize >= 1) =>
                  /\ err = "none"
                  /\ heap = RefExtractMax(prevHeap).heap
                  /\ ret = RefExtractMax(prevHeap).ret
           /\ (op = "increase_key" /\ 0 <= arg[1] /\ arg[1] < prevSize
                   /\ arg[2] > Get(prevHeap, arg[1])) =>
                  (err = "none" /\ heap = RefIncreaseKey(prevHeap, arg[1], arg[2]))
           /\ (op = "delete_key" /\ 0 <= arg[1] /\ arg[1] < prevSize) =>
                  (err = "none" /\ heap = RefDelete(prevHeap, arg[1]))

\* C13: for every d >= 2, parent index p >= 0 and k in 1 .. d, parent of
\* k_child(k, p) is p, and k_child with different (k, p) returns different
\* child indices.
C13_ParentInvertsKChild ==
    [][/\ (op = "k_child" /\ op' = "parent") => ret' = arg[2]
       /\ (op = "k_child" /\ op' = "k_child" /\ arg' # arg) => ret' # ret]_vars

\* parent applied to the last child of a parent index that is itself a child
C13_Witness ==
    /\ op = "parent"
    /\ ret >= 1
    /\ arg[1] = children * ret + children

\* C14: DAryHeap(heap_size, d) with d < 2 raises IllegalChildrenError and no
\* instance exists, so no call is ever made on one; with d >= 2 it returns an
\* instance whose branching factor is d, and no call changes the branching
\* factor.
C14_ChildrenCheckedAndKept ==
    /\ [](op = "__init__" =>
             IF arg[2] < 2
             THEN ~constructed /\ err = "IllegalChildrenError"
             ELSE constructed /\ err = "none" /\ children = arg[2])
    /\ [][constructed /\ constructed' /\ children' = children]_vars

C14_Witness ==
    /\ op = "__init__"
    /\ arg[2] = 1
    /\ err = "IllegalChildrenError"
    /\ ~constructed

\* C15: after heap_sort returns, the list and the logical size the instance
\* holds have the max-heap property, so the key at position 0, which a
\* following extract_max returns, is the largest key of the list.
C15_HeapAfterHeapSort ==
    (op = "heap_sort" /\ err = "none") =>
        /\ IsMaxHeap(heap, heap_size, children)
        /\ \A i \in 1 .. Len(heap) :
             extract_max(heap, heap_size, children).ret >= heap[i]

\* position j lies in the subtree rooted at node
RECURSIVE InSubtree(_, _, _)
InSubtree(d, node, j) ==
    IF j = node THEN TRUE
    ELSE IF j < node \/ j <= 0 THEN FALSE
    ELSE InSubtree(d, node, (j - 1) \div d)

\* every position of the subtree rooted at node, node itself left out when
\* strict, is >= its children below size
SubtreeIsHeap(h, size, d, node, strict) ==
    \A j \in 0 .. size - 1 :
        (InSubtree(d, node, j) /\ ~(strict /\ j = node)) =>
            \A k \in 1 .. d :
                d * j + k < size => h[j + 1] >= h[d * j + k + 1]

\* C16: max_heapify(list, node) with the logical size within the list and
\* every position of the subtree rooted at node other than node >= its
\* children returns with the whole subtree rooted at node having that
\* property, the list holding the same keys, and every position outside the
\* subtree and every position >= the logical size holding what it held.
C16_MaxHeapifyFrame ==
    (/\ op = "max_heapify"
     /\ heap_size <= Len(arg[1])
     /\ SubtreeIsHeap(arg[1], heap_size, children, arg[2], TRUE)) =>
        /\ err = "none"
        /\ SubtreeIsHeap(input, heap_size, children, arg[2], FALSE)
        /\ SameBag(input, arg[1])
        /\ \A j \in 0 .. Len(arg[1]) - 1 :
             (~InSubtree(children, arg[2], j) \/ j >= heap_size) =>
                 input[j + 1] = arg[1][j + 1]

\* node is moved down while a larger key sits beyond the logical size
C16_Witness ==
    /\ op = "max_heapify"
    /\ err = "none"
    /\ heap_size < Len(input)
    /\ SubtreeIsHeap(arg[1], heap_size, children, arg[2], TRUE)
    /\ input # arg[1]
    /\ input[Len(input)] > input[arg[2] + 1]

\* the indices n, n - 1, .. 0
RECURSIVE DownFrom(_)
DownFrom(n) == IF n < 0 THEN <<>> ELSE <<n>> \o DownFrom(n - 1)

IsPrefix(s, t) == Len(s) <= Len(t) /\ s = SubSeq(t, 1, Len(s))

\* the indices the build_max_heap call the caller holds applied max_heapify to
BuildVisited == build_max_heap_run(prevHeap, prevSize, children, arg).visited

\* C17 as stated: build_max_heap applies max_heapify to exactly the indices
\* size // d - 1 down to 0, in that order, with size the logical size and d
\* the branching factor.
C17_BuildVisitsFromSizeOverD ==
    (op = "build_max_heap" /\ err = "none") =>
        BuildVisited = DownFrom(prevSize \div children - 1)

\* C17 amended: build_max_heap applies max_heapify to exactly the indices
\* size // 2 - 1 down to 0, in that order, with size the logical size,
\* whatever the branching factor; a call that raises has applied it to the
\* first of these indices only, up to the one that raised.
C17_BuildVisitsFromHalfSize ==
    op = "build_max_heap" =>
        /\ IsPrefix(BuildVisited, DownFrom(prevSize \div 2 - 1))
        /\ err = "none" => BuildVisited = DownFrom(prevSize \div 2 - 1)
        /\ err # "none" => BuildVisited # <<>>

\* d = 3 and a size whose half is more than its third
C17_Witness ==
    /\ op = "build_max_heap"
    /\ err = "none"
    /\ children = 3
    /\ prevSize >= 4
    /\ Len(BuildVisited) = 2
    /\ heap # arg

\* the children of node below size, and the one of them max_heapify is said
\* to swap node with: the lowest index among those holding the largest key
ChildrenInRange(size, d, node) ==
    {c \in d * node + 1 .. d * node + d : c < size}

FirstLargest(h, size, d, node) ==
    CHOOSE c \in ChildrenInRange(size, d, node) :
        \A e \in ChildrenInRange(size, d, node) :
            h[c + 1] > h[e + 1] \/ (h[c + 1] = h[e + 1] /\ c <= e)

\* C18: max_heapify(list, node) leaves the list as it is when no child of
\* node below the logical size holds a key strictly greater than the key at
\* node, also when one holds an equal key; otherwise node receives the
\* largest key of its children and everything else that changes lies in the
\* subtree of the lowest-index child holding that key.
C18_StrictSwapLowestChild ==
    (/\ op = "max_heapify"
     /\ heap_size <= Len(arg[1])
     /\ arg[2] < heap_size) =>
        LET h == arg[1]
            node == arg[2]
            kids == ChildrenInRange(heap_size, children, node)
        IN  IF \A c \in kids : h[c + 1] <= h[node + 1]
            THEN input = h
            ELSE LET top == FirstLargest(h, heap_size, children, node) IN
                 /\ input[node + 1] = h[top + 1]
                 /\ \A j \in 0 .. Len(h) - 1 :
                      (j # node /\ ~InSubtree(children, top, j)) =>
                          input[j + 1] = h[j + 1]

\* two children hold the largest key, which is greater than the key at node
C18_Witness ==
    /\ op = "max_heapify"
    /\ err = "none"
    /\ heap_size <= Len(arg[1])
    /\ arg[2] < heap_size
    /\ \E c, e \in ChildrenInRange(heap_size, children, arg[2]) :
         /\ c < e
         /\ arg[1][c + 1] = arg[1][e + 1]
         /\ arg[1][c + 1] > arg[1][arg[2] + 1]
         /\ \A f \in ChildrenInRange(heap_size, children, arg[2]) :
              arg[1][f + 1] <= arg[1][c + 1]
         /\ input[c + 1] # arg[1][c + 1]
         /\ input[e + 1] = arg[1][e + 1]

\* a call is in one of its loops; it has returned or raised
InLoop == phase \in {"running", "sift_down"}

Ended == phase \in {"returned", "raised"}

\* a turn of max_heapify goes to a child of the node it was at
DownTurn ==
    (/\ phase' = phase
     /\ \/ op = "max_heapify" /\ phase = "running"
        \/ phase = "sift_down") =>
        /\ arg[1] < arg'[1]
        /\ arg'[1] < heap_size
        /\ parent(children, arg'[1]) = arg[1]

\* a turn of a loop of increase_key, max_heap_insert or delete_key goes from
\* an index >= 1 to its parent
UpTurn ==
    (/\ phase = "running"
     /\ phase' = "running"
     /\ op \in {"increase_key", "max_heap_insert", "delete_key"}) =>
        /\ arg[1] >= 1
        /\ arg'[1] = parent(children, arg[1])
        /\ arg'[1] < arg[1]
        /\ arg'[1] >= 0

\* those loops are left at the root or below a parent that is not smaller
UpStop ==
    /\ (/\ phase = "running"
        /\ phase' = "returned"
        /\ op \in {"increase_key", "max_heap_insert"}) =>
           \/ arg[1] = 0
           \/ Get(heap, parent(children, arg[1])) >= arg[2]
    /\ (/\ phase = "running"
        /\ phase' = "sift_down") =>
           \/ arg[1] = 0
           \/ arg[1] >= heap_size
           \/ Get(heap, parent(children, arg[1])) >= Get(heap, arg[1])

C20_NoSubscriptOutsideList ==
    /\ op \in {"max_heap_insert", "extract_max", "build_max_heap", "heap_sort"} =>
           err # "IndexError"
    /\ (op \in {"increase_key", "delete_key"}
            /\ 0 <= arg[1] /\ arg[1] < prevSize) =>
           err # "IndexError"

====
